---- MODULE Spec2Model ----
(***************************************************************************)
(* A model of Format.py, the editor plugin that drives an external source  *)
(* code formatter: the variable expander custom_expandvars, the option     *)
(* resolver _get_options, the brace probe get_indentation_count, the       *)
(* command FormatfooCommand.run with its two modes, and the pre-save hook. *)
(*                                                                         *)
(* Text is a sequence of one-character strings.  Buffer positions are the  *)
(* editor's: 0-based, position p names the character text[p + 1].  A       *)
(* region is a pair <<a, b>> of positions, a > b for a reversed one.       *)
(***************************************************************************)
EXTENDS Integers, Sequences, FiniteSets, TLC

\* ------------------------------------------------------------------ bounds

\* Longest buffer of a single-selection command run.
MaxBuf == 3
\* Longest text the formatter returns in a single-selection command run.
MaxFmt == 2
\* Most selections of a multi-selection command run.
MaxSel == 2
\* Longest buffer of a multi-selection command run.
MaxBufMulti == 2
\* Longest text the formatter returns in a multi-selection command run.
MaxFmtMulti == 1
\* Longest buffer of a command run below an open brace.
MaxBufWrapped == 3
\* Longest text the formatter returns in a command run below an open brace.
MaxFmtWrapped == 4

\* Longest buffer get_indentation_count is evaluated on.
MaxProbe == 3
\* Longest path custom_expandvars is evaluated on.
MaxPath == 4

\* ------------------------------------------------------------- characters

LB == "{"
RB == "}"
NL == "\n"
SP == " "
\* The characters [ \t] of _STRIP_LEADING_SPACES_RE and get_line_indentation_pos.
Blank == {" ", "\t"}
\* The characters [\r\n] of _STRIP_LEADING_SPACES_RE.
LineBreak == {"\r", "\n"}

Seqs(S, n) == UNION {[1..k -> S] : k \in 0..n}

Min(S) == CHOOSE x \in S : \A y \in S : x <= y
Max(S) == CHOOSE x \in S : \A y \in S : x >= y

\* s[from:] of Python, from >= 0.
Drop(s, from) == SubSeq(s, from + 1, Len(s))
\* s[:to] of Python, 0 <= to.
Take(s, to) == SubSeq(s, 1, to)

\* Whether pat occurs in s at the 0-based offset p.
OccursAt(s, pat, p) ==
    /\ p + Len(pat) <= Len(s)
    /\ \A k \in 1..Len(pat) : s[p + k] = pat[k]

\* str.find: the 0-based offset of the first occurrence of pat in s, or -1.
Find(s, pat) ==
    LET hits == {p \in 0..Len(s) : OccursAt(s, pat, p)}
    IN  IF hits = {} THEN -1 ELSE Min(hits)

\* str.replace(pat, rep, 1): the first occurrence of pat replaced by rep.
ReplaceFirst(s, pat, rep) ==
    LET p == Find(s, pat)
    IN  IF p = -1 THEN s ELSE Take(s, p) \o rep \o Drop(s, p + Len(pat))

\* ------------------------------------------------------- the host's view

\* view.line(point).a: the start of the line that holds point.
LineStart(text, point) ==
    Max({0} \cup {q + 1 : q \in {r \in 0..(point - 1) : text[r + 1] = NL}})

\* view.line(point).b: the end of the line that holds point, its newline excluded.
LineEnd(text, point) ==
    Min({Len(text)} \cup {q \in point..(Len(text) - 1) : text[q + 1] = NL})

\* view.substr(region)
SubstrRegion(text, a, b) == SubSeq(text, a + 1, b)

\* view.replace(edit, region, new) on the text.
ReplaceText(text, a, b, new) == Take(text, a) \o new \o Drop(text, b)

Begin(r) == IF r[1] <= r[2] THEN r[1] ELSE r[2]
End(r) == IF r[1] <= r[2] THEN r[2] ELSE r[1]

\* Lexical classes of a position, read by the code as substrings of
\* view.scope_name(i).
ScopeKinds == {"code", "string.quoted", "comment", "preprocessor"}
SkippedScopes == {"string.quoted", "comment", "preprocessor"}

\* view.extract_scope(i).a: the start of the span of one class that holds i.
ExtractScopeA(scope, i) ==
    Min({p \in 0..i : \A q \in p..i : scope[q + 1] = scope[i + 1]})

\* A buffer all of whose positions are plain code.
PlainScope(text) == [k \in 1..Len(text) |-> "code"]

\* ------------------------------------------------------ IndentationProbe

\* get_line_indentation_pos(view, point): the first position of point's line
\* that holds neither a space nor a tab, or the end of the line.
GetLineIndentationPos(text, point) ==
    LET a == LineStart(text, point)
        e == LineEnd(text, point)
    IN  Min({e} \cup {pos \in a..(e - 1) : text[pos + 1] \notin Blank})

\* The effect of one character on indent_count.
BraceDelta(ch) == IF ch = RB THEN -1 ELSE IF ch = LB THEN 1 ELSE 0

\* The loop of get_indentation_count, entered with its index i and the count
\* so far: `while i > 0`.
RECURSIVE IndentScan(_, _, _, _)
IndentScan(text, scope, i, count) ==
    IF ~(i > 0) THEN count
    ELSE IF scope[i + 1] \in SkippedScopes
         THEN IndentScan(text, scope, ExtractScopeA(scope, i) - 1, count)
         ELSE IndentScan(text, scope, i - 1, count + BraceDelta(text[i + 1]))

\* get_indentation_count(view, start)
GetIndentationCount(text, scope, start) == IndentScan(text, scope, start - 1, 0)

\* --------------------------------------------------- SelectionReformatter

\* '{' * n of Python: empty when n <= 0.
Braces(n) == [k \in 1..(IF n > 0 THEN n ELSE 0) |-> LB]

\* The text handed to the formatter: the braces of the indentation hack, a
\* newline when there are any, and the text of the region.
WrappedText(text, a, b, indent_count) ==
    Braces(indent_count)
        \o (IF indent_count > 0 THEN <<NL>> ELSE <<>>)
        \o SubstrRegion(text, a, b)

\* for _ in range(n): index = s.find('{') + 1; s = s[index:]
RECURSIVE CutBraces(_, _)
CutBraces(s, n) ==
    IF n <= 0 THEN s ELSE CutBraces(Drop(s, Find(s, <<LB>>) + 1), n - 1)

\* _STRIP_LEADING_SPACES_RE.sub(r'\1', s, 1) with the pattern
\* [ \t]*\n([^\r\n]): the leftmost match starts at the run of blanks before
\* the first newline that a character other than a line break follows; the
\* blanks and the newline go, the character stays.
StripLeadingSpaces(s) ==
    LET nls == {q \in 1..(Len(s) - 1) : s[q] = NL /\ s[q + 1] \notin LineBreak}
    IN  IF nls = {} THEN s
        ELSE LET q == Min(nls)
                 p == Min({r \in 1..q : \A k \in r..(q - 1) : s[k] \in Blank})
             IN  SubSeq(s, 1, p - 1) \o SubSeq(s, q + 1, Len(s))

\* What run_selection_only writes for the formatter's result F on input text.
Unwrap(text, F, indent_count) ==
    IF indent_count > 0
    THEN StripLeadingSpaces(CutBraces(F, indent_count))
    ELSE IF Find(text, <<NL, LB>>) = -1
         THEN ReplaceFirst(F, <<NL, LB>>, <<LB>>)
         ELSE F

\* The region run_selection_only replaces for the selection sel.
SelStart(text, sel) == GetLineIndentationPos(text, Begin(sel))
SelRegion(text, sel) ==
    <<LineStart(text, SelStart(text, sel)), LineEnd(text, End(sel))>>

\* The recorded region, were the direction of the selection not looked at.
NewRegionForward(sel, ra, len) == <<ra, ra + len>>

\* The region recorded for the replaced text.
NewRegion(sel, ra, len) ==
    IF sel[1] <= sel[2] THEN <<ra, ra + len>> ELSE <<ra + len, ra>>

\* ------------------------------------------- the host's selection set

\* Whether two regions of a selection set are merged into one.
Intersects(x, y) ==
    \/ Begin(x) < End(y) /\ Begin(y) < End(x)
    \/ Begin(x) = End(x) /\ Begin(y) <= Begin(x) /\ Begin(x) <= End(y)
    \/ Begin(y) = End(y) /\ Begin(x) <= Begin(y) /\ Begin(y) <= End(x)

RECURSIVE SortRegions(_)
SortRegions(S) ==
    IF S = {} THEN <<>>
    ELSE LET r == CHOOSE x \in S : \A y \in S :
                      \/ Begin(x) < Begin(y)
                      \/ Begin(x) = Begin(y) /\ End(x) <= End(y)
         IN  <<r>> \o SortRegions(S \ {r})

Range(f) == {f[k] : k \in DOMAIN f}

\* view.sel().add(region): the region joins the set, merged with the regions
\* it intersects; the set is kept in buffer order.
AddRegion(S, r) ==
    LET hit == {x \in Range(S) : Intersects(x, r)}
        lo == Min({Begin(x) : x \in hit \cup {r}})
        hi == Max({End(x) : x \in hit \cup {r}})
        m == IF r[1] <= r[2] THEN <<lo, hi>> ELSE <<hi, lo>>
    IN  SortRegions((Range(S) \ hit) \cup {m})

RECURSIVE AddRegions(_, _)
AddRegions(S, rs) ==
    IF rs = <<>> THEN S ELSE AddRegions(AddRegion(S, Head(rs)), Tail(rs))

\* How the host moves a position when [ra, rb) is replaced by len characters.
\* Positions before the region stay and positions after it shift; where a
\* position inside the replaced region lands is the host's choice.
AdjustModes == {"start", "end", "span"}
AdjustPoint(p, ra, rb, len, mode) ==
    IF p < ra THEN p
    ELSE IF p > rb THEN p + len - (rb - ra)
    ELSE IF mode = "start" \/ (mode = "span" /\ p = ra) THEN ra
    ELSE ra + len

AdjustSels(S, ra, rb, len, mode) ==
    AddRegions(<<>>, [k \in 1..Len(S) |->
        <<AdjustPoint(S[k][1], ra, rb, len, mode),
          AdjustPoint(S[k][2], ra, rb, len, mode)>>])

\* The selection sets of up to n regions a buffer of the given length can hold.
SelSets(len, n) ==
    {S \in Seqs((0..len) \X (0..len), n) :
        /\ Len(S) >= 1
        /\ \A k \in 1..(Len(S) - 1) :
              /\ End(S[k]) <= Begin(S[k + 1])
              /\ ~Intersects(S[k], S[k + 1])}

\* ------------------------------------------------------------------ state

VARIABLES
    buffer,          \* the text of the view the command runs on
    sels,            \* view.sel(): the view's selection set, in buffer order
    selection_only,  \* the argument of FormatfooCommand.run
    pc,              \* where the command stands: idle, loop, whole, done
    idx,             \* the index of the loop `for sel in view.sel()`
    regions,         \* the list regions of run_selection_only
    panelText,       \* what was written to the panel style_error_message
    panelVisible,    \* whether that panel is shown
    statusMsg,       \* whether sublime.status_message was called
    fmtCalls,        \* the number of calls of lib.format
    outcome,         \* how the command ended: none, ok, options_error,
                     \* format_error, merge_error
    buffer0,         \* history: the buffer when the command started
    sels0,           \* history: the selection set when the command started
    replaced,        \* history: per edit <<sel, region.a, region.b, text written>>
    formatted,       \* history: the formatter's last result
    depth,           \* history: the last indent_count
    probe,           \* an evaluation of get_indentation_count
    expand,          \* an evaluation of custom_expandvars
    opts,            \* an evaluation of _get_options
    save             \* a pre-save event

runVars ==
    <<buffer, sels, selection_only, pc, idx, regions, panelText, panelVisible,
      statusMsg, fmtCalls, outcome, buffer0, sels0, replaced, formatted, depth>>

vars == <<runVars, probe, expand, opts, save>>

\* The characters of the buffers and of the formatter's results.
BufChars == {LB, NL, SP, "a"}
FmtChars == {LB, NL, "a"}
BufCharsMulti == {LB, NL, "a"}
FmtCharsMulti == {NL, "a"}

\* The value of a variable a specification does not use.
Unused == "unused"

\* ---------------------------------------------------- ErrorMessagePanel

\* error_panel.write(s): the message is appended to the panel.
PanelWrite(text, msg) == Append(text, msg)

\* ------------------------------------------------- FormatfooCommand.run

\* The state of a view before the command runs on it.
RunInit(bufs, maxSel) ==
    /\ buffer \in bufs
    /\ sels \in SelSets(Len(buffer), maxSel)
    /\ selection_only \in BOOLEAN
    /\ pc = "idle"
    /\ idx = 0
    /\ regions = <<>>
    /\ panelText = <<>>
    /\ panelVisible \in BOOLEAN
    /\ statusMsg = FALSE
    /\ fmtCalls = 0
    /\ outcome = "none"
    /\ buffer0 = buffer
    /\ sels0 = sels
    /\ replaced = <<>>
    /\ formatted = <<>>
    /\ depth = 0

\* run, up to the dispatch: the panel is closed and the options are resolved;
\* ImproperlyConfigured is written to the panel, which is shown, and ends the
\* command.
RunBegin ==
    /\ pc = "idle"
    /\ \E cfg \in {"ok", "improper", "improper_extra"} :
          IF cfg = "ok"
          THEN /\ pc' = IF selection_only THEN "loop" ELSE "whole"
               /\ panelVisible' = FALSE
               /\ UNCHANGED <<panelText, outcome>>
          ELSE /\ pc' = "done"
               /\ panelText' =
                     IF cfg = "improper_extra"
                     THEN PanelWrite(PanelWrite(panelText, "options_error"), "extra_message")
                     ELSE PanelWrite(panelText, "options_error")
               /\ panelVisible' = TRUE
               /\ outcome' = "options_error"
    /\ UNCHANGED <<buffer, sels, selection_only, idx, regions, statusMsg,
                   fmtCalls, buffer0, sels0, replaced, formatted, depth>>

\* The handler of run, were the panel written to and not shown.
FormatFailedNotShown ==
    /\ panelText' = PanelWrite(panelText, "format_error")
    /\ UNCHANGED panelVisible
    /\ outcome' = "format_error"
    /\ pc' = "done"

\* The handler `except lib.error` of run: the message is written to the
\* panel, the panel is shown and the command returns.
FormatFailed ==
    /\ panelText' = PanelWrite(panelText, "format_error")
    /\ panelVisible' = TRUE
    /\ outcome' = "format_error"
    /\ pc' = "done"

\* The end of run after a mode returned: the status message.
RunEnd ==
    /\ statusMsg' = TRUE
    /\ pc' = "done"

\* One pass of the loop of run_selection_only, for the selection the live
\* selection set holds at the loop's index; the formatter returns F or fails.
SelectionStep(fmtTexts, modes) ==
    /\ pc = "loop"
    /\ idx < Len(sels)
    /\ LET sel == sels[idx + 1]
           start == SelStart(buffer, sel)
           region == SelRegion(buffer, sel)
           indent_count == GetIndentationCount(buffer, PlainScope(buffer), start)
           text == WrappedText(buffer, region[1], region[2], indent_count)
       IN  /\ fmtCalls' = fmtCalls + 1
           /\ depth' = indent_count
           /\ \/ /\ FormatFailed
                 /\ UNCHANGED <<buffer, sels, idx, regions, statusMsg,
                                replaced, formatted>>
              \/ \E F \in fmtTexts, mode \in modes :
                    LET formatted_code == Unwrap(text, F, indent_count)
                    IN  /\ formatted' = F
                        /\ buffer' = ReplaceText(buffer, region[1], region[2],
                                                 formatted_code)
                        /\ sels' = AdjustSels(sels, region[1], region[2],
                                              Len(formatted_code), mode)
                        /\ regions' = Append(regions,
                              NewRegion(sel, region[1], Len(formatted_code)))
                        /\ replaced' = Append(replaced,
                              <<sel, region[1], region[2], formatted_code>>)
                        /\ idx' = idx + 1
                        /\ UNCHANGED <<pc, panelText, panelVisible, statusMsg,
                                       outcome>>
    /\ UNCHANGED <<selection_only, buffer0, sels0>>

\* The end of run_selection_only: the selection set is cleared and the
\* recorded regions are added; run then ends.
SelectionFinish ==
    /\ pc = "loop"
    /\ idx >= Len(sels)
    /\ sels' = AddRegions(<<>>, regions)
    /\ outcome' = "ok"
    /\ RunEnd
    /\ UNCHANGED <<buffer, selection_only, idx, regions, panelText,
                   panelVisible, fmtCalls, buffer0, sels0, replaced,
                   formatted, depth>>

\* merge_code(view, edit, code, formatted_code) of FormatterLib.MergeUtils:
\* it patches the view into formatted_code, or returns an error and leaves
\* the view as it was.
MergeCode(code, formatted_code, err) == IF err THEN code ELSE formatted_code

\* What run_whole_file does with the error merge_code returned.
MergeFailed ==
    /\ panelText' = PanelWrite(panelText, "merge_failure")
    /\ UNCHANGED panelVisible

\* run_whole_file, and the end of run after it.
WholeFile(fmtTexts) ==
    /\ pc = "whole"
    /\ fmtCalls' = fmtCalls + 1
    /\ \/ /\ FormatFailed
          /\ UNCHANGED <<buffer, statusMsg, formatted>>
       \/ \E F \in fmtTexts, err \in BOOLEAN :
             /\ formatted' = F
             /\ buffer' = MergeCode(buffer, F, err)
             /\ IF err
                THEN MergeFailed /\ outcome' = "merge_error"
                ELSE UNCHANGED <<panelText, panelVisible>> /\ outcome' = "ok"
             /\ RunEnd
    /\ UNCHANGED <<sels, selection_only, idx, regions, buffer0, sels0,
                   replaced, depth>>

otherVars == <<probe, expand, opts, save>>
otherIdle == probe = Unused /\ expand = Unused /\ opts = Unused /\ save = Unused

\* A command run, selection only, on a view with one selection.
Buffers == Seqs(BufChars, MaxBuf)
FmtTexts == Seqs(FmtChars, MaxFmt)

Init ==
    /\ RunInit(Buffers, 1)
    /\ selection_only = TRUE
    /\ panelVisible = FALSE
    /\ otherIdle

Begin1 == RunBegin /\ UNCHANGED otherVars
Step1 == SelectionStep(FmtTexts, AdjustModes) /\ UNCHANGED otherVars
Finish1 == SelectionFinish /\ UNCHANGED otherVars

Next == Begin1 \/ Step1 \/ Finish1

Spec == Init /\ [][Next]_vars

\* A command run, in either mode, on a view with several selections.
BuffersMulti == Seqs(BufCharsMulti, MaxBufMulti)
FmtTextsMulti == Seqs(FmtCharsMulti, MaxFmtMulti)

InitMulti ==
    /\ RunInit(BuffersMulti, MaxSel)
    /\ otherIdle

BeginMulti == RunBegin /\ UNCHANGED otherVars
StepMulti == SelectionStep(FmtTextsMulti, AdjustModes) /\ UNCHANGED otherVars
FinishMulti == SelectionFinish /\ UNCHANGED otherVars
WholeMulti == WholeFile(FmtTextsMulti) /\ UNCHANGED otherVars

NextMulti == BeginMulti \/ StepMulti \/ FinishMulti \/ WholeMulti

SpecMulti == InitMulti /\ [][NextMulti]_vars

\* A command run, selection only, on a view with one caret, the formatter
\* returning longer texts: the runs that reach the indentation hack.
BuffersWrapped == Seqs(BufChars, MaxBufWrapped)
FmtTextsWrapped == Seqs(FmtChars, MaxFmtWrapped)

InitWrapped ==
    /\ RunInit(BuffersWrapped, 1)
    /\ selection_only = TRUE
    /\ panelVisible = FALSE
    /\ sels[1][1] = sels[1][2]
    /\ otherIdle

BeginWrapped == RunBegin /\ UNCHANGED otherVars
StepWrapped == SelectionStep(FmtTextsWrapped, AdjustModes) /\ UNCHANGED otherVars
FinishWrapped == SelectionFinish /\ UNCHANGED otherVars

NextWrapped == BeginWrapped \/ StepWrapped \/ FinishWrapped

SpecWrapped == InitWrapped /\ [][NextWrapped]_vars

\* A command run on the whole file.
InitWhole ==
    /\ RunInit(Buffers, 1)
    /\ selection_only = FALSE
    /\ sels = <<<<0, 0>>>>
    /\ otherIdle

BeginWhole == RunBegin /\ UNCHANGED otherVars
WholeFileRun == WholeFile(FmtTexts) /\ UNCHANGED otherVars

NextWhole == BeginWhole \/ WholeFileRun

SpecWhole == InitWhole /\ [][NextWhole]_vars

\* -------------------------------------------- get_indentation_count alone

ProbeChars == {LB, RB, "a"}

InitProbe ==
    /\ probe \in {[text |-> t, scope |-> sc, start |-> st, pc |-> "call",
                   indent_count |-> 0] :
                    t \in Seqs(ProbeChars, MaxProbe),
                    sc \in Seqs(ScopeKinds, MaxProbe),
                    st \in 0..MaxProbe}
    /\ Len(probe.scope) = Len(probe.text)
    /\ probe.start <= Len(probe.text)
    /\ RunInit({<<>>}, 1)
    /\ selection_only = TRUE
    /\ panelVisible = FALSE
    /\ expand = Unused /\ opts = Unused /\ save = Unused

\* A call of get_indentation_count(view, start).
ProbeCall ==
    /\ probe.pc = "call"
    /\ probe' = [probe EXCEPT
          !.indent_count = GetIndentationCount(probe.text, probe.scope, probe.start),
          !.pc = "done"]
    /\ UNCHANGED <<runVars, expand, opts, save>>

NextProbe == ProbeCall

SpecProbe == InitProbe /\ [][NextProbe]_vars

\* ---------------------------------------------------- custom_expandvars

\* \w of _VARPROG_RE, as far as the paths of the model hold it.
WordChars == {"x"}
PathChars == {"$", "{", "}", "x"}

\* The end (exclusive, 0-based) of a match of \$(\w+|\{[^}]*\}) that starts
\* at offset k of path, or -1 when none does: \w+ takes the longest run of
\* word characters, \{[^}]*\} runs to the first closing brace.
MatchEnd(path, k) ==
    IF ~(k + 1 < Len(path) /\ path[k + 1] = "$") THEN -1
    ELSE IF path[k + 2] \in WordChars
    THEN Max({j \in (k + 2)..Len(path) :
                 \A q \in (k + 2)..j : path[q] \in WordChars})
    ELSE IF path[k + 2] = "{"
    THEN LET closes == {j \in (k + 3)..Len(path) : path[j] = "}"}
         IN  IF closes = {} THEN -1 ELSE Min(closes)
    ELSE -1

\* _VARPROG_RE.search(path, i): the span of the leftmost match at or after
\* offset i, or <<-1, -1>>.
Search(path, i) ==
    LET starts == {k \in i..Len(path) : MatchEnd(path, k) # -1}
    IN  IF starts = {} THEN <<-1, -1>>
        ELSE <<Min(starts), MatchEnd(path, Min(starts))>>

\* m.group(1), with the braces of ${name} taken off.
GroupName(path, i, j) ==
    LET name == SubSeq(path, i + 2, j)
    IN  IF Len(name) >= 1 /\ name[1] = "{" /\ name[Len(name)] = "}"
        THEN SubSeq(name, 2, Len(name) - 1)
        ELSE name

\* dict.update: the entries of o replace those of d.
Update(d, o) ==
    [k \in (DOMAIN d) \cup (DOMAIN o) |-> IF k \in DOMAIN o THEN o[k] ELSE d[k]]

\* envs = custom_envs.copy(); envs.update(os.environ)
Envs(custom_envs, environ) == Update(custom_envs, environ)

\* The scan position, were the scan to resume where the substituted text starts.
ResumeAtMatch(i, j, value) == i

\* The scan position after a substitution: i = len(path[:i] + envs[name]).
ResumeAt(i, j, value) == i + Len(value)

\* One pass of the loop `while True` of custom_expandvars on the state st.
ExpandPass(st) ==
    LET m == Search(st.path, st.i)
        i == m[1]
        j == m[2]
        name == GroupName(st.path, i, j)
    IN  IF i = -1 THEN [st EXCEPT !.pc = "done"]
        ELSE IF name \in DOMAIN st.envs
        THEN [st EXCEPT
                !.path = Take(st.path, i) \o st.envs[name] \o Drop(st.path, j),
                !.i = ResumeAt(i, j, st.envs[name])]
        ELSE [st EXCEPT !.i = j]

\* The values a variable can hold, the empty one, one that refers to the
\* variable itself and one that ends in a dollar sign among them.
EnvValues == {<<>>, <<"x">>, <<"$", "x">>, <<"$">>}
EnvNames == {<<"x">>}
EnvMaps == UNION {[D -> EnvValues] : D \in SUBSET EnvNames}

InitExpand ==
    /\ expand \in {[path |-> p, path0 |-> p, i |-> 0, envs |-> << >>,
                    custom_envs |-> c, environ |-> e, pc |-> "call"] :
                     p \in Seqs(PathChars, MaxPath), c \in EnvMaps, e \in EnvMaps}
    /\ RunInit({<<>>}, 1)
    /\ selection_only = TRUE
    /\ panelVisible = FALSE
    /\ probe = Unused /\ opts = Unused /\ save = Unused

\* The entry of custom_expandvars: a path without '$' is returned as it is;
\* otherwise envs is built and the scan starts at 0.
ExpandCall ==
    /\ expand.pc = "call"
    /\ expand' =
          IF \A k \in 1..Len(expand.path) : expand.path[k] # "$"
          THEN [expand EXCEPT !.pc = "done"]
          ELSE [expand EXCEPT
                  !.envs = Envs(expand.custom_envs, expand.environ),
                  !.i = 0,
                  !.pc = "loop"]
    /\ UNCHANGED <<runVars, probe, opts, save>>

\* One pass of the loop.
ExpandLoop ==
    /\ expand.pc = "loop"
    /\ expand' = ExpandPass(expand)
    /\ UNCHANGED <<runVars, probe, opts, save>>

NextExpand == ExpandCall \/ ExpandLoop

\* The call runs on: a pass that can be made is made.
SpecExpand == InitExpand /\ [][NextExpand]_vars /\ WF_vars(NextExpand)

\* custom_expandvars(path, custom_envs) as a function, for its callers.
RECURSIVE ExpandRun(_)
ExpandRun(st) == IF st.pc = "done" THEN st.path ELSE ExpandRun(ExpandPass(st))
CustomExpandvars(path, custom_envs, environ) ==
    IF \A k \in 1..Len(path) : path[k] # "$" THEN path
    ELSE ExpandRun([path |-> path, path0 |-> path, i |-> 0,
                    envs |-> Envs(custom_envs, environ),
                    custom_envs |-> custom_envs, environ |-> environ,
                    pc |-> "loop"])

\* --------------------------------------------------------- _get_options

\* Settings are dictionaries: functions from the keys they hold to values,
\* every value a sequence of strings (a flag is <<"true">> or <<"false">>).
OptionKeys == {"style"}
SpecialKeys == {"additional_options", "additional_options_file",
                "use_only_additional_options"}
SettingValues(k) ==
    IF k = "style" THEN {<<"allman">>, <<"google">>}
    ELSE IF k = "additional_options" THEN {<<"--indent=spaces=2">>}
    ELSE IF k = "additional_options_file" THEN {<<"$", "x">>}
    ELSE {<<"true">>, <<"false">>}
AllSettingValues == UNION {SettingValues(k) : k \in OptionKeys \cup SpecialKeys}
Dicts(keys) ==
    UNION {{d \in [D -> AllSettingValues] : \A k \in D : d[k] \in SettingValues(k)} :
              D \in SUBSET keys}
EmptyDict == << >>

\* dict.get(key, default)
Get(d, key, default) == IF key \in DOMAIN d THEN d[key] ELSE default

\* The truth of a setting's value in `if`.
Truthy(v) == v = <<"true">>

\* _get_syntax_settings(syntax, formatting_mode): the settings options_<mode>,
\* updated with options_<syntax> when the syntax is not the mode itself.
GetSyntaxSettings(syntax, formatting_mode, options_mode, options_syntax) ==
    IF syntax # "" /\ syntax # formatting_mode
    THEN Update(options_mode, options_syntax)
    ELSE options_mode

\* _get_default_options(): OPTIONS_DEFAULT updated with the setting
\* options_default.
GetDefaultOptions(OPTIONS_DEFAULT, options_default) ==
    Update(OPTIONS_DEFAULT, options_default)

\* FormatterOptions.build_style_mode_option(formatting_mode): --mode=xxx.
BuildStyleModeOption(formatting_mode) == <<<<"--mode", formatting_mode>>>>

\* FormatterOptions.build_style_options(settings, indent_options, convert_tabs):
\* one option per formatter key the settings hold, then the indentation of
\* the view.
BuildStyleOptions(settings, indent_options) ==
    (IF "style" \in DOMAIN settings
     THEN <<<<"--style">> \o settings["style"]>> ELSE <<>>)
    \o <<<<"--indent", indent_options>>>>

\* _build_indent_options()
BuildIndentOptions(translate_tabs_to_spaces) ==
    IF translate_tabs_to_spaces THEN "spaces" ELSE "tab"

\* _read_stylerc(path): the lines of the file at the expanded path that are no
\* comments, joined; nothing when there is no such file.
IsCommentLine(line) == Len(line) >= 1 /\ line[1] = "#"
ReadStylerc(path, custom_vars, files) ==
    LET fullpath == CustomExpandvars(path, custom_vars, EmptyDict)
    IN  IF fullpath \notin DOMAIN files THEN <<>>
        ELSE SelectSeq(files[fullpath], LAMBDA line : ~IsCommentLine(line))

\* list.insert(1, x)
Insert1(list, x) == <<Head(list), x>> \o Tail(list)

\* The parts for the defaults, were they appended to the list.
PlaceDefaultsLast(options_list, options) == Append(options_list, options)

\* The parts for the defaults, put into the list of _get_options.
PlaceDefaults(options_list, options) == Insert1(options_list, options)

\* _get_options(syntax, formatting_mode), up to the list it hands to
\* _join_options.
GetOptions(o) ==
    LET syntax_settings ==
            GetSyntaxSettings(o.syntax, o.formatting_mode, o.options_mode,
                              o.options_syntax)
        stylerc_options ==
            IF "additional_options_file" \in DOMAIN syntax_settings
            THEN ReadStylerc(syntax_settings["additional_options_file"],
                             o.custom_vars, o.files)
            ELSE <<>>
        additional_options ==
            IF "additional_options" \in DOMAIN syntax_settings
            THEN syntax_settings["additional_options"]
            ELSE <<>>
        options_list ==
            <<BuildStyleModeOption(o.formatting_mode), additional_options,
              stylerc_options>>
    IN  IF Truthy(Get(syntax_settings, "use_only_additional_options", <<"false">>))
        THEN options_list
        ELSE PlaceDefaults(options_list,
                BuildStyleOptions(
                    Update(GetDefaultOptions(o.OPTIONS_DEFAULT, o.options_default),
                           syntax_settings),
                    BuildIndentOptions(o.translate_tabs_to_spaces)))

\* The syntax of the view and the mode the mapping gives it.
SyntaxModes == {<<"c", "c">>, <<"c++", "c">>, <<"", "">>}
\* The files a stylerc path can name: none, or one with a comment line.
FileSystems == {EmptyDict, (<<"r">> :> <<<<"#", "comment">>, <<"--style=google">>>>)}

InitOptions ==
    /\ opts \in {[syntax |-> sm[1], formatting_mode |-> sm[2],
                  options_mode |-> om, options_syntax |-> os,
                  options_default |-> od,
                  OPTIONS_DEFAULT |-> ("style" :> <<"default">>),
                  custom_vars |-> (<<"x">> :> <<"r">>),
                  files |-> fs, translate_tabs_to_spaces |-> tt,
                  options_list |-> <<>>, pc |-> "call"] :
                   sm \in SyntaxModes,
                   om \in Dicts(OptionKeys \cup SpecialKeys),
                   os \in Dicts(OptionKeys \cup {"use_only_additional_options",
                                                 "additional_options"}),
                   od \in Dicts(OptionKeys),
                   fs \in FileSystems, tt \in BOOLEAN}
    /\ RunInit({<<>>}, 1)
    /\ selection_only = TRUE
    /\ panelVisible = FALSE
    /\ probe = Unused /\ expand = Unused /\ save = Unused

\* A call of _get_options.
OptionsCall ==
    /\ opts.pc = "call"
    /\ opts' = [opts EXCEPT !.options_list = GetOptions(opts), !.pc = "done"]
    /\ UNCHANGED <<runVars, probe, expand, save>>

NextOptions == OptionsCall

SpecOptions == InitOptions /\ [][NextOptions]_vars

\* ------------------------------------------- PluginEventListener.on_pre_save

Views == {"v1", "v2"}
\* view.scope_name(caret) of a view, and what SYNTAX_RE finds in it, lowered.
ScopeNames == {"source.c", "source.python", "text.plain"}
SyntaxOfScope(scope_name) ==
    IF scope_name = "source.c" THEN "c"
    ELSE IF scope_name = "source.python" THEN "python"
    ELSE ""

\* get_syntax_mode_mapping(mapping) of FormatterLib: the built-in mapping
\* with the user's entries added.
BuiltinSyntaxModes == ("c" :> "c")
GetSyntaxModeMapping(mapping) == Update(BuiltinSyntaxModes, mapping)

\* get_settings_for_view(view, key, default): the view's own Formatter
\* settings when they hold the key, the plugin's settings file otherwise.
GetSettingsForView(sv, view, key, default) ==
    IF key \in DOMAIN sv.view_settings[view]
    THEN sv.view_settings[view][key]
    ELSE Get(sv.plugin_settings, key, default)

\* The view whose setting on_pre_save reads: get_settings_for_active_view
\* asks sublime.active_window().active_view().
SettingsViewOnSave(sv, view) == sv.active_view

\* is_enabled_in_view(view)
IsEnabledInView(sv, view) ==
    SyntaxOfScope(sv.scope_name[view])
        \in DOMAIN GetSyntaxModeMapping(sv.user_mapping)

\* The text commands the plugin defines, named by the host after the classes
\* FormatfooCommand and StylePanelInsertCommand.
FormatCommand == "formatfoo"
TextCommands == {FormatCommand, "style_panel_insert"}

\* The command on_pre_save asks the view to run.
SaveCommand == "styleformat"

\* view.run_command(name): the plugin's reformat command runs when name is
\* its name; a name no command has runs nothing.
RunsFormat(name) == name \in TextCommands /\ name = FormatCommand

AutoformatDicts ==
    {EmptyDict, ("autoformat_on_save" :> <<"true">>),
     ("autoformat_on_save" :> <<"false">>)}

InitSave ==
    /\ save \in {[scope_name |-> sn, view_settings |-> vs, plugin_settings |-> ps,
                  user_mapping |-> um, active_view |-> av, saved_view |-> "none",
                  ran |-> FALSE, pc |-> "idle"] :
                   sn \in [Views -> ScopeNames],
                   vs \in [Views -> AutoformatDicts],
                   ps \in AutoformatDicts,
                   um \in {EmptyDict, ("python" :> "c")},
                   av \in Views}
    /\ RunInit({<<>>}, 1)
    /\ selection_only = FALSE
    /\ panelVisible = FALSE
    /\ probe = Unused /\ expand = Unused /\ opts = Unused

\* on_pre_save(view)
OnPreSave(view) ==
    /\ save.pc = "idle"
    /\ save' = [save EXCEPT
          !.saved_view = view,
          !.ran = /\ IsEnabledInView(save, view)
                  /\ Truthy(GetSettingsForView(save, SettingsViewOnSave(save, view),
                                               "autoformat_on_save", <<"false">>))
                  /\ RunsFormat(SaveCommand),
          !.pc = "done"]
    /\ UNCHANGED <<runVars, probe, expand, opts>>

NextSave == \E view \in Views : OnPreSave(view)

SpecSave == InitSave /\ [][NextSave]_vars

\* ================================================================ claims

IsSpace(ch) == ch \in Blank \cup LineBreak

\* The offsets of the occurrences of ch in s, 1-based.
Occurrences(s, ch) == {k \in 1..Len(s) : s[k] = ch}

\* The 1-based offset of the n-th occurrence of ch in s, n >= 1, when s
\* holds that many.
NthOccurrence(s, ch, n) ==
    CHOOSE k \in Occurrences(s, ch) :
        Cardinality({q \in Occurrences(s, ch) : q <= k}) = n

\* The edits of a list applied to a text in order.
RECURSIVE Replay(_, _)
Replay(text, edits) ==
    IF edits = <<>> THEN text
    ELSE Replay(ReplaceText(text, Head(edits)[2], Head(edits)[3], Head(edits)[4]),
                Tail(edits))

\* The braces before start that lie outside the skipped spans, opening ones
\* counted up and closing ones down.
BraceBalance(text, scope, start) ==
    Cardinality({p \in 0..(start - 1) :
                    text[p + 1] = LB /\ scope[p + 1] \notin SkippedScopes})
    - Cardinality({p \in 0..(start - 1) :
                    text[p + 1] = RB /\ scope[p + 1] \notin SkippedScopes})

\* C1: get_indentation_count(view, start) is the number of '{' minus the
\* number of '}' over all the positions 0 .. start-1 that lie outside
\* string, comment and preprocessor spans, position 0 included.
C1_CountsEveryPosition ==
    probe.pc = "done" =>
        probe.indent_count = BraceBalance(probe.text, probe.scope, probe.start)

\* C2: at depth d > 0 the text written for the formatter's result F is what
\* follows the d-th '{' of F with nothing but a leading run of whitespace
\* removed: every character from the first content character on is kept.
C2_OnlyLeadingWhitespaceRemoved ==
    (/\ Len(replaced) = 1
     /\ depth > 0
     /\ Cardinality(Occurrences(formatted, LB)) >= depth) =>
        LET rest == Drop(formatted, NthOccurrence(formatted, LB, depth))
            written == replaced[1][4]
        IN  \E n \in 0..Len(rest) :
               /\ written = Drop(rest, n)
               /\ \A k \in 1..n : IsSpace(rest[k])

\* C3: after run_selection_only the selection set holds exactly one recorded
\* region per original selection, in order, and each delimits in the final
\* buffer the text that was written for that selection.
C3_RegionsDelimitWrittenText ==
    (pc = "done" /\ outcome = "ok" /\ selection_only) =>
        /\ Len(regions) = Len(sels0)
        /\ sels = regions
        /\ \A k \in 1..Len(regions) :
              /\ k <= Len(replaced)
              /\ End(regions[k]) <= Len(buffer)
              /\ SubstrRegion(buffer, Begin(regions[k]), End(regions[k]))
                    = replaced[k][4]

\* C4: for one selection (a, b) the new selection is (region.a, region.a +
\* len(newText)) when a <= b and (region.a + len(newText), region.a)
\* otherwise; it covers exactly the text that replaced the lines from the
\* start of the first selected line to the end of the last one.
C4_NewSelectionCoversReplacedText ==
    (pc = "done" /\ outcome = "ok") =>
        LET sel == sels0[1]
            ra == LineStart(buffer0, Begin(sel))
            rb == LineEnd(buffer0, End(sel))
            newText == replaced[1][4]
            new == sels[1]
        IN  /\ Len(replaced) = 1 /\ Len(sels) = 1
            /\ replaced[1][2] = ra /\ replaced[1][3] = rb
            /\ buffer = Take(buffer0, ra) \o newText \o Drop(buffer0, rb)
            /\ sel[1] <= sel[2] => new = <<ra, ra + Len(newText)>>
            /\ sel[1] > sel[2] => new = <<ra + Len(newText), ra>>
            /\ SubstrRegion(buffer, Begin(new), End(new)) = newText
\* C4, its case: a reversed selection over two lines was replaced by a text
\* that is not empty, and the new selection is reversed.
C4_ReversedSelectionReplaced ==
    /\ pc = "done" /\ outcome = "ok"
    /\ sels0[1][1] > sels0[1][2]
    /\ LineStart(buffer0, Begin(sels0[1])) # LineStart(buffer0, End(sels0[1]))
    /\ Len(replaced[1][4]) > 0
    /\ sels[1][1] > sels[1][2]

\* C5: when the formatter fails the command ends there: the buffer is the
\* original one with the replacements made for the earlier selections and
\* nothing else (the original one in whole-file mode), the formatter is not
\* called again, the message is in the panel and the panel is shown.
C5_FormatterFailureAborts ==
    outcome = "format_error" =>
        /\ pc = "done"
        /\ buffer = Replay(buffer0, replaced)
        /\ fmtCalls = Len(replaced) + 1
        /\ ~selection_only => buffer = buffer0 /\ fmtCalls = 1
        /\ panelText = <<"format_error">>
        /\ panelVisible
        /\ ~statusMsg
        /\ ~ENABLED NextMulti
\* C5, its case: the formatter failed on the second of two selections after
\* the lines of the first were changed.
C5_FailureOnSecondSelection ==
    /\ outcome = "format_error"
    /\ selection_only
    /\ Len(replaced) = 1
    /\ buffer # buffer0
    /\ Len(sels) = 2

\* C6: when merge_code returns an error the panel holds the merge failure
\* message and is shown, and the buffer is as it was.
C6_MergeFailureShown ==
    outcome = "merge_error" =>
        /\ panelVisible
        /\ "merge_failure" \in Range(panelText)
        /\ buffer = buffer0

\* C7: a name found in vars is replaced by vars[name], whatever the process
\* environment holds: expand("$name", vars) = vars[name].
C7_VarsBeforeEnvironment ==
    \A name \in EnvNames :
        (/\ expand.pc = "done"
         /\ name \in DOMAIN expand.custom_envs
         /\ expand.path0 \in {<<"$">> \o name, <<"$", "{">> \o name \o <<"}">>}) =>
            expand.path = expand.custom_envs[name]

\* Whether s is a tail of t.
IsSuffixOf(s, t) == Len(s) <= Len(t) /\ s = Drop(t, Len(t) - Len(s))
\* A pass of the loop that is followed by another moves the scan position
\* forward or leaves it, and shortens the text still to scan.
ScanAdvances ==
    (expand.pc = "loop" /\ expand'.pc = "loop") =>
        /\ expand'.i >= expand.i
        /\ Len(expand'.path) - expand'.i < Len(expand.path) - expand.i
\* C8: custom_expandvars terminates on every path and mapping; the scan
\* position never moves backward, the text still to scan is always a tail of
\* the original path that gets shorter with every pass, so that substituted
\* text is never scanned.
C8_ExpandTerminates ==
    /\ [][ScanAdvances]_vars
    /\ [](expand.pc = "loop" =>
            /\ expand.i <= Len(expand.path)
            /\ IsSuffixOf(Drop(expand.path, expand.i), expand.path0))
    /\ <>(expand.pc = "done")
\* C8, its case: ${x} with x set to $x was replaced once and the scan ended
\* with the substituted $x left as it is.
C8_SelfReferenceExpandedOnce ==
    /\ expand.pc = "done"
    /\ expand.path0 = <<"$", "{", "x", "}">>
    /\ <<"x">> \in DOMAIN expand.envs
    /\ expand.envs[<<"x">>] = <<"$", "x">>
    /\ expand.path = <<"$", "x">>

\* The value of a key by precedence: the syntax settings when they apply,
\* then the mode settings, then the user's defaults, then the built-in ones.
SettingByPrecedence(o, key) ==
    IF o.syntax # "" /\ o.syntax # o.formatting_mode /\ key \in DOMAIN o.options_syntax
    THEN o.options_syntax[key]
    ELSE IF key \in DOMAIN o.options_mode THEN o.options_mode[key]
    ELSE IF key \in DOMAIN o.options_default THEN o.options_default[key]
    ELSE IF key \in DOMAIN o.OPTIONS_DEFAULT THEN o.OPTIONS_DEFAULT[key]
    ELSE <<"absent">>
\* Whether use_only_additional_options is true in the mode or syntax settings.
UseOnly(o) == SettingByPrecedence([o EXCEPT !.options_default = EmptyDict,
                                            !.OPTIONS_DEFAULT = EmptyDict],
                                  "use_only_additional_options") = <<"true">>
\* The content of the stylerc file the settings name, its comments left out.
StylercLines(o) ==
    IF o.files = EmptyDict
       \/ SettingByPrecedence(o, "additional_options_file") = <<"absent">>
    THEN <<>> ELSE <<<<"--style=google">>>>
\* C9: the parts handed to the final join are the mode flag, then (unless
\* use_only_additional_options is true) the options of the defaults merged
\* with the mode and syntax settings, the syntax winning, then the additional
\* options, then the stylerc content; with use_only_additional_options true
\* nothing of the defaults is among them.
C9_PartsInPrecedenceOrder ==
    opts.pc = "done" =>
        LET list == opts.options_list
            n == Len(list)
            additional == SettingByPrecedence(opts, "additional_options")
        IN  /\ list[1] = <<<<"--mode", opts.formatting_mode>>>>
            /\ list[n] = StylercLines(opts)
            /\ list[n - 1] = IF additional = <<"absent">> THEN <<>> ELSE additional
            /\ UseOnly(opts) => n = 3
            /\ ~UseOnly(opts) =>
                  /\ n = 4
                  /\ list[2][1] = <<"--style">> \o SettingByPrecedence(opts, "style")
                  /\ Len(list[2]) = 2
\* C9, its case: a syntax that is not its mode, the style set in both the mode
\* and the syntax settings, additional options and a stylerc file present.
C9_AllLayersPresent ==
    /\ opts.pc = "done"
    /\ Len(opts.options_list) = 4
    /\ opts.syntax = "c++"
    /\ "style" \in DOMAIN opts.options_syntax
    /\ "style" \in DOMAIN opts.options_mode
    /\ opts.options_syntax["style"] # opts.options_mode["style"]
    /\ opts.options_list[3] # <<>>
    /\ opts.options_list[4] # <<>>

\* C10: on a pre-save event the reformat command runs on the saved view
\* exactly when autoformat_on_save, as it applies to that view, is true and the
\* view's syntax is in the supported mapping.
C10_FormatsOnSaveWhenEnabled ==
    save.pc = "done" =>
        (save.ran <=>
            /\ Truthy(GetSettingsForView(save, save.saved_view,
                                         "autoformat_on_save", <<"false">>))
            /\ IsEnabledInView(save, save.saved_view))

====
